---- MODULE Spec2Model ----
(***************************************************************************)
(* Store-locator pipeline: the identity-resolution and merge engine        *)
(* (merge_brands.py), the chain exclusion filter, the platform detector    *)
(* and the protocol adapters of the scrapers.                              *)
(*                                                                         *)
(* Strings that the code inspects character by character are sequences of  *)
(* one-character strings.  A JSON value that may be missing or null is a   *)
(* record [k, v] with k in {"absent", "null", "str"}.                      *)
(***************************************************************************)
EXTENDS Integers, Sequences, FiniteSets, TLC

VARIABLES input_files, files, pc, idx, brand_name, actual_stores, pos,
          all_stores, brand_stats, output, arg, res,
          region, geo_stores, seen, shared, delayed,
          account_id, stores_data, out_file, api_calls, response,
          brands, brand, brand_stores, all_data, driver, stores_json, endpoint, fallback,
          user_id, id_source, logs, widget, harvested, raised, steps

\* merge_brands.py
mergeVars == <<input_files, files, idx, brand_name, actual_stores, pos,
               all_stores, brand_stats, output>>

\* fetch_all_locations_from_api
geoVars == <<region, geo_stores, seen, shared, delayed>>

\* scrape_storerocket_stores
rocketVars == <<account_id, stores_data, out_file, api_calls>>

\* test.py
batchVars == <<brands, brand, brand_stores, all_data, driver, stores_json, endpoint,
               fallback>>

\* scrape_stockist_stores
stockistVars == <<user_id, id_source, logs, widget, harvested, raised, steps>>

scrapeVars == <<geoVars, rocketVars, batchVars, stockistVars, response>>

vars == <<mergeVars, pc, arg, res, scrapeVars>>

(***************************************************************************)
(* Bounds                                                                  *)
(***************************************************************************)
MaxFiles == 2
MaxStores == 2
MaxGid == 1
MaxSid == 2

(***************************************************************************)
(* JSON values                                                             *)
(***************************************************************************)
Absent == [k |-> "absent", v |-> <<>>]
Null == [k |-> "null", v |-> <<>>]
Str(s) == [k |-> "str", v |-> s]

\* dict.get(key, '') of a string-valued field: the default only replaces a
\* missing key, a JSON null stays None.
GetOrEmpty(f) == IF f.k = "absent" THEN Str(<<>>) ELSE f

\* Python truthiness of a string-or-None value.
Truthy(f) == f.k = "str" /\ f.v # <<>>

(***************************************************************************)
(* extract_brand_name                                                      *)
(***************************************************************************)
\* A file name is its directory part, its stem and its suffix.
Filenames ==
    { [dir |-> "",      stem |-> "yolele",             suffix |-> "_enriched.json"],
      [dir |-> "data/", stem |-> "yolele",             suffix |-> "_raw.json"],
      [dir |-> "",      stem |-> "storerocket_stores", suffix |-> "_raw.json"] }

StrippedSuffixes == {"_enriched.json", "_raw.json", "_google.json"}

brand_map ==
    [s \in {"alice", "yolele", "rooted_fare", "rishi_tea", "only_bean"} |->
        CASE s = "alice" -> "Alice Mushrooms"
          [] s = "yolele" -> "Yolele"
          [] s = "rooted_fare" -> "Rooted Fare"
          [] s = "rishi_tea" -> "Rishi Tea"
          [] s = "only_bean" -> "The Only Bean"]

\* base.replace('_', ' ').title() on the stems of Filenames.
TitleCase(base) ==
    CASE base = "storerocket_stores" -> "Storerocket Stores"
      [] OTHER -> base

extract_brand_name(filename) ==
    LET base == IF filename.suffix \in StrippedSuffixes
                THEN filename.stem
                ELSE filename.stem \o filename.suffix
    IN IF base \in DOMAIN brand_map THEN brand_map[base] ELSE TitleCase(base)

BrandNames == { extract_brand_name(f) : f \in Filenames }

\* The scraper that wrote a per-brand file: yolele is served by the
\* geo-sampling platform, storerocket_stores_raw.json is the default output
\* of the single-call scraper.
Platform(filename) ==
    IF filename.stem = "storerocket_stores" THEN "storerocket" ELSE "stockist"

(***************************************************************************)
(* get_store_id                                                            *)
(***************************************************************************)
\* A store record: gid is google_places.id (0: google_places missing or
\* without id), sid is the platform id (-1: no 'id' key, 0: a falsy id),
\* fmt is google_places.formattedAddress.
Key(ns, id, text) == [ns |-> ns, id |-> id, text |-> text]

KeyError == Key("error", 0, <<>>)

get_store_id_PlatformFirst(store) ==
    IF store.sid > 0 THEN Key("stockist", store.sid, <<>>)
    ELSE IF store.gid # 0 THEN Key("google", store.gid, <<>>)
    ELSE LET name == GetOrEmpty(store.name)
             address == IF Truthy(GetOrEmpty(store.address_line_1))
                        THEN GetOrEmpty(store.address_line_1)
                        ELSE GetOrEmpty(store.fmt)
         IN IF name.k = "str" /\ address.k = "str"
            THEN Key("hash", 0, name.v \o address.v)
            ELSE KeyError

\* The f-string keys "google:<id>", "stockist:<id>", "hash:<digest>"; the
\* digest is the hashed text itself (hash() taken as collision free).
get_store_id(store) ==
    IF store.gid # 0 THEN Key("google", store.gid, <<>>)
    ELSE IF store.sid > 0 THEN Key("stockist", store.sid, <<>>)
    ELSE LET name == GetOrEmpty(store.name)
             address == IF Truthy(GetOrEmpty(store.address_line_1))
                        THEN GetOrEmpty(store.address_line_1)
                        ELSE GetOrEmpty(store.fmt)
         IN IF name.k = "str" /\ address.k = "str"
            THEN Key("hash", 0, name.v \o address.v)
            ELSE KeyError

(***************************************************************************)
(* Character strings                                                       *)
(***************************************************************************)
UpperChars == <<"A", "B", "C", "D", "E", "F", "G", "H", "I", "J", "K", "L", "M",
               "N", "O", "P", "Q", "R", "S", "T", "U", "V", "W", "X", "Y", "Z">>
LowerChars == <<"a", "b", "c", "d", "e", "f", "g", "h", "i", "j", "k", "l", "m",
               "n", "o", "p", "q", "r", "s", "t", "u", "v", "w", "x", "y", "z">>

\* str.lower() on one character and on a string.
LowerChar(c) ==
    IF \E n \in DOMAIN UpperChars : UpperChars[n] = c
    THEN LowerChars[CHOOSE n \in DOMAIN UpperChars : UpperChars[n] = c]
    ELSE c

lower(s) == [i \in DOMAIN s |-> LowerChar(s[i])]

\* The Python test `sub in s` on strings.
Contains(sub, s) ==
    \E i \in 0..(Len(s) - Len(sub)) : SubSeq(s, i + 1, i + Len(sub)) = sub

(***************************************************************************)
(* should_exclude_store, one copy per scraper                              *)
(***************************************************************************)
EXCLUDED_CHAINS_stockist ==
    << <<"W", "h", "o", "l", "e", " ", "F", "o", "o", "d", "s">>,
       <<"S", "t", "o", "p", " ", "&", " ", "S", "h", "o", "p">>,
       <<"T", "a", "r", "g", "e", "t">> >>

EXCLUDED_CHAINS_storerocket ==
    << <<"W", "h", "o", "l", "e", " ", "F", "o", "o", "d", "s">>,
       <<"S", "t", "o", "p", " ", "&", " ", "S", "h", "o", "p">>,
       <<"T", "a", "r", "g", "e", "t">>,
       <<"W", "a", "l", "m", "a", "r", "t">>,
       <<"K", "r", "o", "g", "e", "r">>,
       <<"S", "a", "f", "e", "w", "a", "y">> >>

should_exclude_store_stockist_NoLower(store_name) ==
    IF ~Truthy(store_name) THEN FALSE
    ELSE LET store_name_lower == lower(store_name.v)
         IN \E n \in DOMAIN EXCLUDED_CHAINS_stockist :
               Contains(EXCLUDED_CHAINS_stockist[n], store_name_lower)

\* scrape_stockist_stores.py; store_name is a string or None.
should_exclude_store_stockist(store_name) ==
    IF ~Truthy(store_name) THEN FALSE
    ELSE LET store_name_lower == lower(store_name.v)
         IN \E n \in DOMAIN EXCLUDED_CHAINS_stockist :
               Contains(lower(EXCLUDED_CHAINS_stockist[n]), store_name_lower)

\* scrape_storerocket_stores.py; store_name is a string or None.
should_exclude_store_storerocket(store_name) ==
    IF ~Truthy(store_name) THEN FALSE
    ELSE LET store_name_lower == lower(store_name.v)
         IN \E n \in DOMAIN EXCLUDED_CHAINS_storerocket :
               Contains(lower(EXCLUDED_CHAINS_storerocket[n]), store_name_lower)

\* Store names: an optional prefix, a chain name in some spelling or a
\* near miss, an optional suffix; plus a missing and a null name.
NamePrefixes == { <<>>, <<"A", "c", "m", "e", " ">> }
NameCores ==
    { <<"W", "h", "o", "l", "e", " ", "F", "o", "o", "d", "s">>,
      <<"w", "h", "o", "l", "e", " ", "f", "o", "o", "d", "s">>,
      <<"W", "H", "O", "L", "E", " ", "F", "O", "O", "D", "S">>,
      <<"W", "h", "o", "l", "e", " ", "F", "o", "o", "d">>,
      <<"W", "h", "o", "l", "e", "F", "o", "o", "d", "s">>,
      <<"S", "t", "o", "p", " ", "&", " ", "S", "h", "o", "p">>,
      <<"S", "T", "O", "P", " ", "&", " ", "S", "H", "O", "P">>,
      <<"S", "t", "o", "p", " ", "a", "n", "d", " ", "S", "h", "o", "p">>,
      <<"T", "a", "r", "g", "e", "t">>,
      <<"t", "a", "r", "G", "E", "T">>,
      <<"T", "a", "r", "g", "e">>,
      <<"W", "a", "l", "m", "a", "r", "t">>,
      <<"W", "A", "L", "M", "A", "R", "T">>,
      <<"K", "r", "o", "g", "e", "r">>,
      <<"k", "r", "o", "g", "e", "r">>,
      <<"S", "a", "f", "e", "w", "a", "y">>,
      <<"S", "a", "f", "e", "w", "a">>,
      <<"C", "o", "r", "n", "e", "r", " ", "M", "a", "r", "k", "e", "t">>,
      <<>> }
NameSuffixes == { <<>>, <<" ", "E", "x", "p", "r", "e", "s", "s">> }

StoreNames ==
    { Str(a \o b \o c) : a \in NamePrefixes, b \in NameCores,
                          c \in NameSuffixes }
    \cup {Absent, Null}

(***************************************************************************)
(* Input domains                                                           *)
(***************************************************************************)
Rec(gid, sid, name, address, fmt) ==
    [gid |-> gid, sid |-> sid, name |-> name, address_line_1 |-> address,
     fmt |-> fmt]

NameVals == {Absent, Null, Str(<<>>), Str(<<"a">>), Str(<<"a", "b">>)}
AddrVals == {Absent, Null, Str(<<>>), Str(<<"b">>)}

Records ==
    [gid : 0..MaxGid, sid : (-1)..MaxSid, name : NameVals,
     address_line_1 : AddrVals, fmt : AddrVals]

\* The records the merged datasets are built from: keyed by the external id
\* (with differing platform ids and names), by the platform id, by the
\* digest; carrying neither 'name' nor 'id'; and with a null name.
MergeRecords ==
    { Rec(1, 1, Str(<<"a">>), Str(<<"b">>), Str(<<"b">>)),
      Rec(1, 2, Str(<<"a", "b">>), Absent, Str(<<"b">>)),
      Rec(0, 1, Str(<<"a">>), Str(<<"b">>), Absent),
      Rec(0, -1, Str(<<"a">>), Str(<<"b">>), Absent),
      Rec(1, -1, Absent, Absent, Str(<<"b">>)),
      Rec(0, -1, Null, Absent, Absent) }

SeqsUpTo(S, n) == UNION { [1..m -> S] : m \in 0..n }

Range(s) == { s[i] : i \in DOMAIN s }

\* A file that cannot be opened or parsed, or the 'stores' list of its JSON.
Unreadable == [readable |-> FALSE, stores |-> <<>>]

Readable(stores) == [readable |-> TRUE, stores |-> stores]

FirstIndex(seq, x) == CHOOSE i \in DOMAIN seq :
                         seq[i] = x /\ \A j \in 1..(i - 1) : seq[j] # x

RECURSIVE SumSizes(_, _)
SumSizes(n, S) ==
    IF S = {} THEN 0
    ELSE LET f == CHOOSE x \in S : TRUE
         IN (IF n[f] < 0 THEN 0 ELSE n[f]) + SumSizes(n, S \ {f})

\* The file systems for a list of input files: every named file is
\* unreadable (size -1) or holds a list of stores, at most MaxStores stores
\* in all; flat is the concatenation of the lists in order of first mention.
FileSystem(inp, n, flat) ==
    [f \in Filenames |->
       IF n[f] < 0 THEN Unreadable
       ELSE LET before == { g \in Range(inp) :
                              FirstIndex(inp, g) < FirstIndex(inp, f) }
                off == SumSizes(n, before)
            IN Readable([i \in 1..n[f] |-> flat[off + i]])]

(***************************************************************************)
(* merge_brands                                                            *)
(***************************************************************************)
NoStats == [present |-> FALSE, total_stores |-> 0, new_stores |-> 0,
            existing_stores |-> 0]

\* [s for s in stores if 'name' in s or 'id' in s]
IsActualStore(s) == s.name.k # "absent" \/ s.sid # -1

KeyIndex(stores, k) ==
    IF \E i \in DOMAIN stores : stores[i].key = k
    THEN CHOOSE i \in DOMAIN stores : stores[i].key = k
    ELSE 0

AddBrand_NoCount(entry, bn) ==
    [entry EXCEPT !.brands = Append(@, bn)]

AddBrand_Prepend(entry, bn) ==
    [entry EXCEPT !.brands = <<bn>> \o @, !.brand_count = @ + 1]

\* Lines 113-114: the brand is appended and the count incremented.
AddBrand(entry, bn) ==
    [entry EXCEPT !.brands = Append(@, bn), !.brand_count = @ + 1]

\* Lines 118-120: the record itself becomes the canonical store.
NewEntry(store_id, store, bn) ==
    [key |-> store_id, store |-> store, brands |-> <<bn>>, brand_count |-> 1]

MergeStore_LastSeenWins(stores, store_id, store, bn) ==
    LET i == KeyIndex(stores, store_id)
    IN IF i # 0
       THEN [stores EXCEPT ![i] = [AddBrand(@, bn) EXCEPT !.store = store]]
       ELSE Append(stores, NewEntry(store_id, store, bn))

\* Lines 111-121: one pass of the loop body for a record whose key is known.
MergeStore(stores, store_id, store, bn) ==
    LET i == KeyIndex(stores, store_id)
    IN IF i # 0
       THEN [stores EXCEPT ![i] = AddBrand(@, bn)]
       ELSE Append(stores, NewEntry(store_id, store, bn))

\* Lines 108-121, 127-130: the loop over one file's stores; an exception in
\* get_store_id leaves the loop and keeps what was merged before it.
RECURSIVE ProcessStores(_, _, _)
ProcessStores(stores, acts, bn) ==
    IF acts = <<>> THEN stores
    ELSE LET store_id == get_store_id(Head(acts))
         IN IF store_id = KeyError THEN stores
            ELSE ProcessStores(MergeStore(stores, store_id, Head(acts), bn),
                               Tail(acts), bn)

\* Lines 84-133: the merged map for a list of input files.
RECURSIVE MergeFiles(_, _, _)
MergeFiles(inp, fs, stores) ==
    IF inp = <<>> THEN stores
    ELSE LET c == fs[Head(inp)]
             bn == extract_brand_name(Head(inp))
         IN MergeFiles(Tail(inp), fs,
                       IF c.readable
                       THEN ProcessStores(stores,
                                          SelectSeq(c.stores, IsActualStore),
                                          bn)
                       ELSE stores)

NoArg == <<>>

\* No scraper is running.
NoGeo ==
    /\ region = 0
    /\ geo_stores = <<>>
    /\ seen = {}
    /\ shared = {}
    /\ delayed = FALSE

NoRocket ==
    /\ account_id = ""
    /\ stores_data = <<>>
    /\ out_file = <<>>
    /\ api_calls = 0

NoBatch ==
    /\ brands = <<>>
    /\ brand = 0
    /\ brand_stores = <<>>
    /\ all_data = <<>>
    /\ driver = "none"
    /\ stores_json = <<>>
    /\ endpoint = 0
    /\ fallback = {}

NoStockist ==
    /\ user_id = Null
    /\ id_source = "none"
    /\ logs = <<>>
    /\ widget = "none"
    /\ harvested = <<>>
    /\ raised = FALSE
    /\ steps = <<>>

NoResponse == [kind |-> "none", success |-> FALSE, locations |-> <<>>]

NoScrape ==
    NoGeo /\ NoRocket /\ NoBatch /\ NoStockist /\ response = NoResponse

InitMerge ==
    /\ input_files \in SeqsUpTo(Filenames, MaxFiles)
    /\ \E n \in [Filenames -> (-1)..MaxStores] :
          /\ \A f \in Filenames \ Range(input_files) : n[f] = -1
          /\ SumSizes(n, Filenames) <= MaxStores
          /\ \E flat \in [1..SumSizes(n, Filenames) -> MergeRecords] :
                files = FileSystem(input_files, n, flat)
    /\ pc = "loop"
    /\ idx = 1
    /\ brand_name = ""
    /\ actual_stores = <<>>
    /\ pos = 1
    /\ all_stores = <<>>
    /\ brand_stats = [b \in BrandNames |-> NoStats]
    /\ output = <<>>
    /\ arg = NoArg
    /\ res = NoArg
    /\ NoScrape

\* Lines 88-105: the file opens and parses; its statistics entry is (re)set.
LoadFile ==
    /\ pc = "loop"
    /\ idx <= Len(input_files)
    /\ files[input_files[idx]].readable
    /\ LET bn == extract_brand_name(input_files[idx])
           act == SelectSeq(files[input_files[idx]].stores, IsActualStore)
       IN /\ brand_name' = bn
          /\ actual_stores' = act
          /\ brand_stats' = [brand_stats EXCEPT ![bn] =
                               [present |-> TRUE, total_stores |-> Len(act),
                                new_stores |-> 0, existing_stores |-> 0]]
    /\ pos' = 1
    /\ pc' = "stores"
    /\ UNCHANGED <<scrapeVars, input_files, files, idx, all_stores, output, arg, res>>

\* Lines 92-94, 127-130: open or json.load raises; the file is skipped.
LoadFileError ==
    /\ pc = "loop"
    /\ idx <= Len(input_files)
    /\ ~files[input_files[idx]].readable
    /\ brand_name' = extract_brand_name(input_files[idx])
    /\ idx' = idx + 1
    /\ UNCHANGED <<scrapeVars, input_files, files, pc, actual_stores, pos, all_stores,
                   brand_stats, output, arg, res>>

\* Lines 111-115: the key is already in all_stores.
AddExistingStore ==
    /\ pc = "stores"
    /\ pos <= Len(actual_stores)
    /\ LET store_id == get_store_id(actual_stores[pos])
           i == KeyIndex(all_stores, store_id)
       IN /\ store_id # KeyError
          /\ i # 0
          /\ all_stores' = MergeStore(all_stores, store_id,
                                      actual_stores[pos], brand_name)
          /\ brand_stats' = [brand_stats EXCEPT
                               ![brand_name].existing_stores = @ + 1]
    /\ pos' = pos + 1
    /\ UNCHANGED <<scrapeVars, input_files, files, pc, idx, brand_name, actual_stores,
                   output, arg, res>>

\* Lines 116-121: a new key.
AddNewStore ==
    /\ pc = "stores"
    /\ pos <= Len(actual_stores)
    /\ LET store_id == get_store_id(actual_stores[pos])
       IN /\ store_id # KeyError
          /\ KeyIndex(all_stores, store_id) = 0
          /\ all_stores' = MergeStore(all_stores, store_id,
                                      actual_stores[pos], brand_name)
          /\ brand_stats' = [brand_stats EXCEPT
                               ![brand_name].new_stores = @ + 1]
    /\ pos' = pos + 1
    /\ UNCHANGED <<scrapeVars, input_files, files, pc, idx, brand_name, actual_stores,
                   output, arg, res>>

StoreError_Abort ==
    /\ pc = "stores"
    /\ pos <= Len(actual_stores)
    /\ get_store_id(actual_stores[pos]) = KeyError
    /\ idx' = Len(input_files) + 1
    /\ pc' = "loop"
    /\ UNCHANGED <<scrapeVars, input_files, files, brand_name, actual_stores, pos,
                   all_stores, brand_stats, output, arg, res>>

\* Lines 109, 127-130: get_store_id raises; the rest of the file is skipped.
StoreError ==
    /\ pc = "stores"
    /\ pos <= Len(actual_stores)
    /\ get_store_id(actual_stores[pos]) = KeyError
    /\ idx' = idx + 1
    /\ pc' = "loop"
    /\ UNCHANGED <<scrapeVars, input_files, files, brand_name, actual_stores, pos,
                   all_stores, brand_stats, output, arg, res>>

\* Lines 108, 123-125: the file's stores are exhausted.
EndOfFile ==
    /\ pc = "stores"
    /\ pos > Len(actual_stores)
    /\ idx' = idx + 1
    /\ pc' = "loop"
    /\ UNCHANGED <<scrapeVars, input_files, files, brand_name, actual_stores, pos,
                   all_stores, brand_stats, output, arg, res>>

\* Lines 133, 170-181: the directory file is written.
WriteOutput ==
    /\ pc = "loop"
    /\ idx > Len(input_files)
    /\ output' = << [source_files |-> input_files,
                     total_stores |-> Len(all_stores),
                     brand_stats |-> brand_stats,
                     stores |-> all_stores] >>
    /\ pc' = "done"
    /\ UNCHANGED <<scrapeVars, input_files, files, idx, brand_name, actual_stores, pos,
                   all_stores, brand_stats, arg, res>>

NextMerge ==
    \/ LoadFile
    \/ LoadFileError
    \/ AddExistingStore
    \/ AddNewStore
    \/ StoreError
    \/ EndOfFile
    \/ WriteOutput

Spec == InitMerge /\ [][NextMerge]_vars

(***************************************************************************)
(* get_store_id and should_exclude_store applied to one input              *)
(***************************************************************************)
NoMerge ==
    /\ input_files = <<>>
    /\ files = [f \in Filenames |-> Unreadable]
    /\ idx = 1
    /\ brand_name = ""
    /\ actual_stores = <<>>
    /\ pos = 1
    /\ all_stores = <<>>
    /\ brand_stats = [b \in BrandNames |-> NoStats]
    /\ output = <<>>

InitKey ==
    /\ NoMerge
    /\ NoScrape
    /\ pc = "get_store_id"
    /\ arg \in { <<r>> : r \in Records }
    /\ res = NoArg

\* store_id = get_store_id(store)
CallGetStoreId ==
    /\ pc = "get_store_id"
    /\ res = NoArg
    /\ res' = << get_store_id(arg[1]) >>
    /\ UNCHANGED <<scrapeVars, input_files, files, pc, idx, brand_name, actual_stores,
                   pos, all_stores, brand_stats, output, arg>>

SpecKey == InitKey /\ [][CallGetStoreId]_vars

InitFilter ==
    /\ NoMerge
    /\ NoScrape
    /\ pc = "should_exclude_store"
    /\ arg \in { <<n>> : n \in StoreNames }
    /\ res = NoArg

\* should_exclude_store(s.get('name', '')) in either scraper.
CallShouldExclude ==
    /\ pc = "should_exclude_store"
    /\ res = NoArg
    /\ res' = << should_exclude_store_stockist(GetOrEmpty(arg[1])),
                 should_exclude_store_storerocket(GetOrEmpty(arg[1])) >>
    /\ UNCHANGED <<scrapeVars, input_files, files, pc, idx, brand_name, actual_stores,
                   pos, all_stores, brand_stats, output, arg>>

SpecFilter == InitFilter /\ [][CallShouldExclude]_vars

(***************************************************************************)
(* Properties of merge_brands                                              *)
(***************************************************************************)
Keys(stores) == { stores[i].key : i \in DOMAIN stores }

Reverse(s) == [i \in 1..Len(s) |-> s[Len(s) + 1 - i]]

\* The first occurrences of the elements of s, in order.
Dedup(s) ==
    LET keep == { i \in DOMAIN s : \A j \in 1..(i - 1) : s[j] # s[i] }
        f[i \in 0..Len(s)] ==
            IF i = 0 THEN <<>>
            ELSE IF i \in keep THEN Append(f[i - 1], s[i]) ELSE f[i - 1]
    IN f[Len(s)]

\* The records of the i-th input file the loop reaches: those that pass the
\* filter of line 97, up to the first one for which get_store_id raises.
Reached(i) ==
    LET c == files[input_files[i]]
        acts == SelectSeq(c.stores, IsActualStore)
    IN IF ~c.readable THEN {}
       ELSE { acts[p] : p \in { q \in DOMAIN acts :
                 \A u \in 1..q : get_store_id(acts[u]) # KeyError } }

\* The i-th input file presents a record with identity key k.
Presents(i, k) == \E r \in Reached(i) : get_store_id(r) = k

\* The brands of the input files that present k, in the order supplied.
FirstSeenBrands(k) ==
    LET indices == [i \in 1..Len(input_files) |-> i]
        Test(i) == Presents(i, k)
        presenting == SelectSeq(indices, Test)
    IN Dedup([j \in DOMAIN presenting |->
                extract_brand_name(input_files[presenting[j]])])

Rearrangements(s) ==
    { [i \in DOMAIN s |-> s[f[i]]] : f \in Permutations(DOMAIN s) }

\* C1: after any prefix of the records of any input, every store of the
\* merged map has brand_count equal to the length of its brands list.
BrandCountIsLength ==
    \A i \in DOMAIN all_stores :
        all_stores[i].brand_count = Len(all_stores[i].brands)

\* A record has matched an existing store, whose brand list has grown.
BrandCountIsLength_Witness ==
    /\ pc = "stores"
    /\ \E i \in DOMAIN all_stores :
          all_stores[i].brand_count = 2 /\ Len(all_stores[i].brands) = 2

\* C2: in every reachable state no store's brands list holds a brand name
\* twice.
NoDuplicateBrands ==
    \A i \in DOMAIN all_stores :
        \A a, b \in DOMAIN all_stores[i].brands :
            a # b => all_stores[i].brands[a] # all_stores[i].brands[b]

\* C3: the same input file supplied twice yields brand_count = 1 and a
\* single-element brands list for every store.
SelfMergeCountsOnce ==
    (/\ pc = "done"
     /\ Len(input_files) = 2
     /\ input_files[1] = input_files[2])
    => \A i \in DOMAIN all_stores :
          all_stores[i].brand_count = 1 /\ Len(all_stores[i].brands) = 1

\* C4: when the datasets of two distinct brands A and B, in that order, each
\* hold a record with external id g, the output has exactly one store for g,
\* with brands = <<A, B>> and brand_count = 2.
SharedExternalIdMerged ==
    (/\ pc = "done"
     /\ Len(input_files) = 2
     /\ extract_brand_name(input_files[1]) # extract_brand_name(input_files[2]))
    => \A g \in 1..MaxGid :
          (\A i \in 1..2 : \E r \in Range(files[input_files[i]].stores) :
               r.gid = g)
          => /\ Cardinality({ j \in DOMAIN all_stores :
                     all_stores[j].key = Key("google", g, <<>>) }) = 1
             /\ \A j \in DOMAIN all_stores :
                   all_stores[j].key = Key("google", g, <<>>)
                   => /\ all_stores[j].brands =
                           << extract_brand_name(input_files[1]),
                              extract_brand_name(input_files[2]) >>
                      /\ all_stores[j].brand_count = 2

\* C5: the key is derived by strict priority: from the external id alone when
\* it is non-empty, else from the platform id alone when there is one, and
\* from the name and address only when both are missing.
StrictKeyPriority ==
    res # NoArg
    => LET r == arg[1]
           k == res[1]
       IN /\ r.gid # 0
             => /\ k.ns = "google"
                /\ \A r2 \in Records :
                      r2.gid # 0 => (get_store_id(r2) = k <=> r2.gid = r.gid)
          /\ (r.gid = 0 /\ r.sid > 0)
             => /\ k.ns = "stockist"
                /\ \A r2 \in Records :
                      (r2.gid = 0 /\ r2.sid > 0)
                      => (get_store_id(r2) = k <=> r2.sid = r.sid)
          /\ k.ns \in {"hash", "error"} <=> (r.gid = 0 /\ r.sid <= 0)

\* A record with an external id, a platform id, a name and an address.
StrictKeyPriority_Witness ==
    /\ res # NoArg
    /\ arg[1].gid # 0
    /\ arg[1].sid > 0
    /\ Truthy(arg[1].name)
    /\ Truthy(arg[1].address_line_1)
    /\ res[1].ns = "google"

\* C6: every record of every loaded input dataset, whatever fields it
\* carries, has exactly one merged store with its identity key.
EveryRecordRepresented ==
    pc = "done"
    => \A i \in DOMAIN input_files :
          files[input_files[i]].readable
          => \A r \in Range(files[input_files[i]].stores) :
                Cardinality({ j \in DOMAIN all_stores :
                    all_stores[j].key = get_store_id(r) }) = 1

\* C7: the set of identity keys of the merged directory is the same for
\* every permutation of the input datasets.
KeySetOrderIndependent ==
    pc = "done"
    => \A p \in Rearrangements(input_files) :
          Keys(MergeFiles(p, files, <<>>)) = Keys(all_stores)

\* Two different files were merged and the other order lists the stores
\* differently.
KeySetOrderIndependent_Witness ==
    /\ pc = "done"
    /\ Len(input_files) = 2
    /\ input_files[1] # input_files[2]
    /\ Len(all_stores) = 2
    /\ MergeFiles(Reverse(input_files), files, <<>>) # all_stores

\* C8: in every merged store the brand names appear in the order in which
\* their datasets first presented the store's key, which is the order of
\* the input files; swapping two input files reverses the names.
BrandsInSuppliedOrder ==
    pc = "done"
    => \A i \in DOMAIN all_stores :
          /\ Dedup(all_stores[i].brands) = FirstSeenBrands(all_stores[i].key)
          /\ Len(input_files) = 2
             => LET swapped == MergeFiles(Reverse(input_files), files, <<>>)
                IN \A j \in DOMAIN swapped :
                      swapped[j].key = all_stores[i].key
                      => swapped[j].brands = Reverse(all_stores[i].brands)

\* Two files of different brands both held the store.
BrandsInSuppliedOrder_Witness ==
    /\ pc = "done"
    /\ Len(input_files) = 2
    /\ \E i \in DOMAIN all_stores :
          /\ Len(all_stores[i].brands) = 2
          /\ all_stores[i].brands[1] # all_stores[i].brands[2]
          /\ all_stores[i].brands[1] = extract_brand_name(input_files[1])

\* C9: keys built from platform ids are namespaced by platform, so no store
\* keyed by a platform id is presented by files of two different platforms.
PlatformIdsNamespaced ==
    pc = "done"
    => \A i \in DOMAIN all_stores :
          all_stores[i].key.ns \notin {"google", "hash"}
          => \A a, b \in DOMAIN input_files :
                (Presents(a, all_stores[i].key) /\ Presents(b, all_stores[i].key))
                => Platform(input_files[a]) = Platform(input_files[b])

(***************************************************************************)
(* Properties of should_exclude_store                                      *)
(***************************************************************************)
SameLetter(x, y) ==
    x = y \/ \E n \in DOMAIN UpperChars : {x, y} = {UpperChars[n], LowerChars[n]}

\* chain occurs in s at some offset, letter case disregarded.
ContainsIgnoringCase(s, chain) ==
    \E i \in 1..Len(s) :
        \A j \in 1..Len(chain) :
            i + j - 1 <= Len(s) /\ SameLetter(s[i + j - 1], chain[j])

NameContainsChain(name, chains) ==
    /\ name.k = "str"
    /\ \E n \in DOMAIN chains : ContainsIgnoringCase(name.v, chains[n])

\* C10: a record is dropped exactly when its name contains a denylist entry
\* as a case-insensitive substring; "Acme Whole Foods Express" is dropped;
\* a record with an empty or missing name is never dropped.
ExcludedIffNameContainsChain ==
    res # NoArg
    => /\ res[1] = NameContainsChain(arg[1], EXCLUDED_CHAINS_stockist)
       /\ res[2] = NameContainsChain(arg[1], EXCLUDED_CHAINS_storerocket)
       /\ arg[1] = Str(<<"A", "c", "m", "e", " ", "W", "h", "o", "l", "e", " ",
                         "F", "o", "o", "d", "s", " ", "E", "x", "p", "r", "e",
                         "s", "s">>)
          => (res[1] /\ res[2])
       /\ ~Truthy(arg[1]) => (~res[1] /\ ~res[2])

\* A name that holds a chain name in another letter case, between other
\* words, has been dropped by both scrapers.
ExcludedIffNameContainsChain_Witness ==
    /\ res = <<TRUE, TRUE>>
    /\ arg[1] = Str(<<"A", "c", "m", "e", " ", "W", "H", "O", "L", "E", " ",
                      "F", "O", "O", "D", "S", " ", "E", "x", "p", "r", "e",
                      "s", "s">>)

----------------------------------------------------------------------------
(* The chain filter applied to a record list (both scrapers).              *)

MaxLocs == 2

\* A location record of a store-locator API: its platform-issued id (0: the
\* record has no id) and its name.
Location(sid, name) == [sid |-> sid, name |-> name]

FilterNames ==
    { Absent,
      Str(<<"C", "o", "r", "n", "e", "r", " ", "M", "a", "r", "k", "e", "t">>),
      Str(<<"t", "a", "r", "G", "E", "T">>),
      Str(<<"A", "c", "m", "e", " ", "K", "r", "o", "g", "e", "r", " ", "E", "x", "p", "r", "e", "s", "s">>) }

FilterStores == { Location(1, n) : n \in FilterNames }

should_exclude_store(platform, store_name) ==
    IF platform = "stockist" THEN should_exclude_store_stockist(store_name)
    ELSE should_exclude_store_storerocket(store_name)

RECURSIVE FilterChains_RemoveWhileIterating(_, _)
FilterChains_RemoveWhileIterating(platform, data) ==
    IF data = <<>> THEN <<>>
    ELSE IF should_exclude_store(platform, GetOrEmpty(Head(data).name))
         THEN IF Len(data) = 1 THEN <<>>
              ELSE <<data[2]>>
                   \o FilterChains_RemoveWhileIterating(platform,
                                                        Tail(Tail(data)))
         ELSE <<Head(data)>>
              \o FilterChains_RemoveWhileIterating(platform, Tail(data))

\* [s for s in stores_data if not should_exclude_store(s.get('name', ''))]
FilterChains(platform, data) ==
    LET Kept(s) == ~should_exclude_store(platform, GetOrEmpty(s.name))
    IN SelectSeq(data, Kept)

\* arg is <<platform, the unfiltered list>>; res lists the successive
\* values of stores_data.
InitFilterList ==
    /\ NoMerge
    /\ NoStockist
    /\ NoGeo
    /\ NoBatch
    /\ response = NoResponse
    /\ pc = "filter"
    /\ \E platform \in {"stockist", "storerocket"} :
       \E data \in SeqsUpTo(FilterStores, MaxLocs) :
          /\ arg = <<platform, data>>
          /\ stores_data = data
    /\ account_id = ""
    /\ out_file = <<>>
    /\ api_calls = 0
    /\ res = <<>>

ApplyFilter ==
    /\ pc = "filter"
    /\ Len(res) < 2
    /\ stores_data' = FilterChains(arg[1], stores_data)
    /\ res' = Append(res, stores_data')
    /\ UNCHANGED <<mergeVars, stockistVars, geoVars, batchVars, response, pc, arg,
                   account_id, out_file, api_calls>>

SpecFilterList == InitFilterList /\ [][ApplyFilter]_vars

\* C11: applying the chain filter to an already-filtered record list
\* returns the same list, with the same records in the same order.
FilterIdempotent ==
    (pc = "filter" /\ Len(res) = 2) => res[2] = res[1]

\* The first pass dropped the first of two records; the second pass
\* has run.
FilterIdempotent_Witness ==
    /\ pc = "filter"
    /\ Len(res) = 2
    /\ Len(arg[2]) = 2
    /\ Len(res[1]) = 1
    /\ arg[1] = "storerocket"
    /\ arg[2][1].name = Str(<<"A", "c", "m", "e", " ", "K", "r", "o", "g", "e", "r", " ", "E", "x", "p", "r", "e", "s", "s">>)

----------------------------------------------------------------------------
(* fetch_all_locations_from_api (scrape_stockist_stores.py): one search    *)
(* request per region, results collected in a dict keyed by the id.        *)

\* Lines 125-142.
regions ==
    << "Pacific West", "Mountain West", "Southwest", "South Central",
       "Southeast", "Northeast", "New England", "Great Lakes",
       "Northern Plains", "California", "Hawaii", "Alaska", "Puerto Rico",
       "Florida South", "Maine North" >>

\* The locations a region query can return: ids 1..MaxSid, and a record
\* whose id is missing (or falsy), written 0.
GeoLocations == { Location(i, Str(<<"C", "o", "r", "n", "e", "r", " ", "M", "a", "r", "k", "e", "t">>)) : i \in 0..MaxSid }

GeoResponses == SeqsUpTo(GeoLocations, MaxLocs)

\* A Python dict keyed by the id, as the sequence of its values in
\* insertion order.
HasId(d, sid) == \E i \in DOMAIN d : d[i].sid = sid

DictSet_Append(d, store) == Append(d, store)

\* all_stores[store_id] = store: an existing key keeps its position.
DictSet(d, store) ==
    IF HasId(d, store.sid)
    THEN [i \in DOMAIN d |-> IF d[i].sid = store.sid THEN store ELSE d[i]]
    ELSE Append(d, store)

\* Lines 164-167.
RECURSIVE AddLocations(_, _)
AddLocations(d, locations) ==
    IF locations = <<>> THEN d
    ELSE LET store == Head(locations)
             store_id == store.sid
         IN AddLocations(IF store_id # 0 THEN DictSet(d, store) ELSE d,
                         Tail(locations))

InitGeo ==
    /\ NoMerge
    /\ NoStockist
    /\ NoRocket
    /\ NoBatch
    /\ response = NoResponse
    /\ pc = "regions"
    /\ arg = NoArg
    /\ res = NoArg
    /\ region = 1
    /\ geo_stores = <<>>
    /\ seen = {}
    /\ shared = {}
    /\ delayed = FALSE

\* Lines 156-172: the request succeeds and parses; seen collects the
\* records of the successful responses, shared the ids that an earlier
\* region had already returned.
RegionOk ==
    /\ pc = "regions"
    /\ region <= Len(regions)
    /\ \E locations \in GeoResponses :
          /\ geo_stores' = AddLocations(geo_stores, locations)
          /\ seen' = seen \cup Range(locations)
          /\ shared' = shared \cup { l.sid : l \in { x \in Range(locations) :
                                        x.sid # 0 /\ HasId(geo_stores, x.sid) } }
    /\ delayed' = TRUE
    /\ region' = region + 1
    /\ UNCHANGED <<mergeVars, stockistVars, rocketVars, batchVars, response, pc, arg, res>>

RegionRequestFailed_Abort ==
    /\ pc = "regions"
    /\ region <= Len(regions)
    /\ delayed' = FALSE
    /\ pc' = "returned"
    /\ res' = <<geo_stores>>
    /\ UNCHANGED <<mergeVars, stockistVars, rocketVars, batchVars, response, arg,
                   region, geo_stores, seen, shared>>

\* Lines 157-158 raise, line 174 catches: no delay follows.
RegionRequestFailed ==
    /\ pc = "regions"
    /\ region <= Len(regions)
    /\ delayed' = FALSE
    /\ region' = region + 1
    /\ UNCHANGED <<mergeVars, stockistVars, rocketVars, batchVars, response, pc, arg, res,
                   geo_stores, seen, shared>>

\* Line 160 raises, line 176 catches: no delay follows.
RegionJsonError ==
    /\ pc = "regions"
    /\ region <= Len(regions)
    /\ delayed' = FALSE
    /\ region' = region + 1
    /\ UNCHANGED <<mergeVars, stockistVars, rocketVars, batchVars, response, pc, arg, res,
                   geo_stores, seen, shared>>

\* Lines 179-182.
GeoReturn ==
    /\ pc = "regions"
    /\ region > Len(regions)
    /\ pc' = "returned"
    /\ res' = <<geo_stores>>
    /\ UNCHANGED <<mergeVars, stockistVars, rocketVars, batchVars, response, arg, geoVars>>

NextGeo == RegionOk \/ RegionRequestFailed \/ RegionJsonError \/ GeoReturn

SpecGeo == InitGeo /\ [][NextGeo]_vars

SeenIds == { l.sid : l \in seen } \ {0}

\* C12: the adapter returns exactly one record per distinct identifier seen
\* in the region responses; an identifier returned by several region
\* queries appears once, and the output size is the number of identifiers.
\* The collection has this shape after every region, and it is what the
\* adapter returns.
OneRecordPerIdentifier ==
    /\ pc = "regions"
       => /\ \A sid \in SeenIds :
                Cardinality({ i \in DOMAIN geo_stores :
                                 geo_stores[i].sid = sid }) = 1
          /\ Len(geo_stores) = Cardinality(SeenIds)
    /\ pc = "returned"
       => /\ \A sid \in SeenIds :
                Cardinality({ i \in DOMAIN res[1] : res[1][i].sid = sid }) = 1
          /\ Len(res[1]) = Cardinality(SeenIds)

\* Two identifiers were seen and each was returned by more than one region
\* query.
OneRecordPerIdentifier_Witness ==
    /\ pc = "returned"
    /\ Cardinality(shared) = 2
    /\ Len(res[1]) = 2

\* C20: every record returned by a successful region query is in the
\* output, as itself or as a record with the same identifier, records
\* without an identifier included.
GeoOutputIsUnion ==
    pc = "returned"
    => \A l \in seen :
          \/ l \in Range(res[1])
          \/ l.sid # 0 /\ HasId(res[1], l.sid)

----------------------------------------------------------------------------
(* extract_stockist_user_id (scrape_stockist_stores.py): five regular      *)
(* expressions tried in order on the page source, case-insensitively.      *)

Digits == {"0", "1", "2", "3", "4", "5", "6", "7", "8", "9"}
Quotes == {"\"", "'"}

\* Lines 74, 81, 87, 93 and 99: the literal heads of the patterns.
pattern1 ==
    <<"s", "t", "o", "c", "k", "i", "s", "t", ".", "c", "o", "/", "a",
      "p", "i", "/", "v", "1", "/">>
pattern2 == <<"t", "a", "g", "=">>
pattern3 ==
    <<"d", "a", "t", "a", "-", "s", "t", "o", "c", "k", "i", "s", "t">>
pattern4 ==
    <<"s", "t", "o", "c", "k", "i", "s", "t", ".", "i", "n", "i", "t",
      "(">>
pattern5 == <<"s", "t", "o", "c", "k", "i", "s", "t">>

\* Line 99: [^u]{0,100}
ProximityLimit == 100

\* The literal lit is in the lower-cased text tl at position i.
Lit(lit, tl, i) ==
    /\ i + Len(lit) - 1 <= Len(tl)
    /\ \A j \in 1..Len(lit) : tl[i + j - 1] = lit[j]

\* (u\d+) can start at position q.
IdAt(tl, q) ==
    /\ q >= 1
    /\ q + 1 <= Len(tl)
    /\ tl[q] = "u"
    /\ tl[q + 1] \in Digits

\* The text (u\d+) captures at q: \d+ takes every digit that follows.
Group(text, q) ==
    LET e == CHOOSE e \in (q + 1)..Len(text) :
                 /\ \A j \in (q + 1)..e : text[j] \in Digits
                 /\ e = Len(text) \/ text[e + 1] \notin Digits
    IN SubSeq(text, q, e)

\* The positions where the group of pattern k can start in a match that
\* starts at position i.
GroupStarts(k, tl, i) ==
    CASE k = 1 ->
           IF ~Lit(pattern1, tl, i) THEN {}
           ELSE { q \in {i + Len(pattern1)} : IdAt(tl, q) }
      [] k = 2 ->
           IF ~Lit(pattern2, tl, i) THEN {}
           ELSE { q \in {i + Len(pattern2)} : IdAt(tl, q) }
      [] k = 3 ->
           IF ~Lit(pattern3, tl, i) THEN {}
           ELSE { q \in (i + Len(pattern3))..Len(tl) :
                     /\ IdAt(tl, q)
                     /\ \A j \in (i + Len(pattern3))..(q - 1) : tl[j] # ">" }
      [] k = 4 ->
           IF ~Lit(pattern4, tl, i) THEN {}
           ELSE { q \in (i + Len(pattern4))..(i + Len(pattern4) + 1) :
                     /\ IdAt(tl, q)
                     /\ q > i + Len(pattern4) => tl[q - 1] \in Quotes }
      [] k = 5 ->
           IF ~Lit(pattern5, tl, i) THEN {}
           ELSE { q \in (i + Len(pattern5))..
                        (i + Len(pattern5) + ProximityLimit) :
                     /\ IdAt(tl, q)
                     /\ \A j \in (i + Len(pattern5))..(q - 1) : tl[j] # "u" }

MaxOf(S) == CHOOSE x \in S : \A y \in S : y <= x
MinOf(S) == CHOOSE x \in S : \A y \in S : x <= y

\* re.search(pattern_k, page_source, re.IGNORECASE): the leftmost match;
\* the greedy [^>]* of pattern 3 ends at the last position that lets the
\* group match. The result is match.group(1), or None.
re_search(k, page_source) ==
    LET tl == lower(page_source)
        starts == { i \in 1..Len(tl) : GroupStarts(k, tl, i) # {} }
    IN IF starts = {} THEN Null
       ELSE Str(Group(page_source, MaxOf(GroupStarts(k, tl, MinOf(starts)))))

extract_stockist_user_id_LooseFirst(page_source) ==
    IF re_search(5, page_source) # Null THEN re_search(5, page_source)
    ELSE IF re_search(1, page_source) # Null THEN re_search(1, page_source)
    ELSE IF re_search(2, page_source) # Null THEN re_search(2, page_source)
    ELSE IF re_search(3, page_source) # Null THEN re_search(3, page_source)
    ELSE IF re_search(4, page_source) # Null THEN re_search(4, page_source)
    ELSE Null

extract_stockist_user_id(page_source) ==
    IF re_search(1, page_source) # Null THEN re_search(1, page_source)
    ELSE IF re_search(2, page_source) # Null THEN re_search(2, page_source)
    ELSE IF re_search(3, page_source) # Null THEN re_search(3, page_source)
    ELSE IF re_search(4, page_source) # Null THEN re_search(4, page_source)
    ELSE IF re_search(5, page_source) # Null THEN re_search(5, page_source)
    ELSE Null

\* Page sources: up to MaxFragments pieces of markup, one after the other.
MaxFragments == 2

UserIds == { <<"1">>, <<"2", "7">> }

Fragment(kind, id) == [kind |-> kind, id |-> id]

Fragments ==
    { Fragment(kind, id) : kind \in {"api", "tag", "attr", "init", "near"},
                           id \in UserIds }
    \cup { Fragment(kind, <<>>) : kind \in {"noise", "broken", "far"} }

Markup(f) ==
    CASE f.kind = "api" ->
           <<"<", "s", "c", "r", "i", "p", "t", " ", "s", "r", "c", "=", "\"",
             "h", "t", "t", "p", "s", ":", "/", "/", "s", "t", "o", "c", "k",
             "i", "s", "t", ".", "c", "o", "/", "a", "p", "i", "/", "v", "1",
             "/", "u">>
           \o f.id \o
           <<"/", "w", "i", "d", "g", "e", "t", ".", "j", "s", "\"", ">", "<",
             "/", "s", "c", "r", "i", "p", "t", ">">>
      [] f.kind = "tag" ->
           <<"<", "a", " ", "h", "r", "e", "f", "=", "\"", "/", "s", "e", "a",
             "r", "c", "h", "?", "t", "a", "g", "=", "u">>
           \o f.id \o
           <<"&", "l", "a", "t", "i", "t", "u", "d", "e", "=", "1", "\"", ">",
             "F", "i", "n", "d", "<", "/", "a", ">">>
      [] f.kind = "attr" ->
           <<"<", "d", "i", "v", " ", "d", "a", "t", "a", "-", "s", "t", "o",
             "c", "k", "i", "s", "t", "-", "i", "d", "=", "\"", "u">>
           \o f.id \o
           <<"\"", ">", "<", "/", "d", "i", "v", ">">>
      [] f.kind = "init" ->
           <<"<", "s", "c", "r", "i", "p", "t", ">", "S", "t", "o", "c", "k",
             "i", "s", "t", ".", "i", "n", "i", "t", "(", "'", "u">>
           \o f.id \o
           <<"'", ")", ";", "<", "/", "s", "c", "r", "i", "p", "t", ">">>
      [] f.kind = "near" ->
           <<"<", "p", ">", "S", "t", "o", "c", "k", "i", "s", "t", " ", "s",
             "t", "o", "r", "e", " ", "l", "o", "c", "a", "t", "o", "r", ":",
             " ", "<", "b", ">", "u">>
           \o f.id \o
           <<"<", "/", "b", ">", "<", "/", "p", ">">>
      [] f.kind = "noise" ->
           <<"<", "p", ">", "F", "i", "n", "d", " ", "u", "s", ":", " ", "u",
             "n", "i", "t", " ", "1", "2", ",", " ", "A", "u", "s", "t", "i",
             "n", "<", "/", "p", ">">>
      [] f.kind = "broken" ->
           <<"<", "p", ">", "S", "t", "o", "c", "k", "i", "s", "t", " ", "a",
             "b", "o", "u", "t", " ", "u", "s", ":", " ", "u", "9", "<", "/",
             "p", ">">>
      [] f.kind = "far" ->
           <<"<", "p", ">", "S", "t", "o", "c", "k", "i", "s", "t">>
           \o [i \in 1..(ProximityLimit + 1) |-> " "] \o
           <<"u", "3", "<", "/", "p", ">">>

RECURSIVE PageSource(_)
PageSource(fragments) ==
    IF fragments = <<>> THEN <<>>
    ELSE Markup(Head(fragments)) \o PageSource(Tail(fragments))

\* arg is <<the fragments, the page source>>.
InitDetect ==
    /\ NoMerge
    /\ NoScrape
    /\ pc = "extract_stockist_user_id"
    /\ \E fragments \in SeqsUpTo(Fragments, MaxFragments) :
          arg = <<fragments, PageSource(fragments)>>
    /\ res = NoArg

CallExtractStockistUserId ==
    /\ pc = "extract_stockist_user_id"
    /\ res = NoArg
    /\ res' = <<extract_stockist_user_id(arg[2])>>
    /\ UNCHANGED <<mergeVars, scrapeVars, pc, arg>>

SpecDetect == InitDetect /\ [][CallExtractStockistUserId]_vars

\* The identifiers some match of pattern k captures, anywhere in the text.
Captures(k, text) ==
    LET tl == lower(text)
    IN { Group(text, q) : q \in UNION { GroupStarts(k, tl, i) :
                                           i \in 1..Len(text) } }

\* C13: the detector returns an identifier captured by the first rule, in
\* the order 1..5, that matches anywhere in the text; a page holding a
\* precise API-path match and a loose proximity match with another
\* identifier yields the identifier of the (leftmost) precise match,
\* wherever the two are; the result is None only when no rule matches.
FirstMatchingRuleWins ==
    res # NoArg
    => LET fragments == arg[1]
           text == arg[2]
       IN /\ res[1] = Null <=> \A k \in 1..5 : Captures(k, text) = {}
          /\ res[1] # Null
             => \E k \in 1..5 :
                   /\ res[1].v \in Captures(k, text)
                   /\ \A j \in 1..(k - 1) : Captures(j, text) = {}
          /\ \A n \in DOMAIN fragments :
                ( /\ fragments[n].kind = "api"
                  /\ \A m \in 1..(n - 1) : fragments[m].kind # "api"
                  /\ \E c \in UserIds \ {fragments[n].id} :
                        Fragment("near", c) \in Range(fragments) )
                => res[1] = Str(<<"u">> \o fragments[n].id)

\* The loose match comes first in the page and the precise match, with
\* another identifier, after it: the precise identifier was returned.
FirstMatchingRuleWins_Witness ==
    /\ res = <<Str(<<"u", "2", "7">>)>>
    /\ arg[1] = <<Fragment("near", <<"1">>), Fragment("api", <<"2", "7">>)>>

----------------------------------------------------------------------------
(* scrape_storerocket_stores and its adapter fetch_all_locations           *)
(* (scrape_storerocket_stores.py).                                         *)

\* What the one request to storerocket.io can bring: a transport failure,
\* an HTTP error status, a body that is not JSON, or a JSON object with its
\* 'success' flag (FALSE: false or missing) and results.locations (empty:
\* empty or missing).
RocketResponses ==
    { [kind |-> k, success |-> FALSE, locations |-> <<>>] :
         k \in {"transport", "http_error", "invalid_json"} }
    \cup [kind : {"json"}, success : BOOLEAN,
          locations : SeqsUpTo(FilterStores, MaxLocs)]

fetch_all_locations_IgnoreSuccess(r) ==
    CASE r.kind \in {"transport", "http_error"} -> <<>>
      [] r.kind = "invalid_json" -> <<>>
      [] r.kind = "json" -> r.locations

\* Lines 110-132, on the response r of the request of line 111.
fetch_all_locations(r) ==
    CASE r.kind \in {"transport", "http_error"} -> <<>>
      [] r.kind = "invalid_json" -> <<>>
      [] r.kind = "json" -> IF ~r.success THEN <<>> ELSE r.locations

\* The dict the scraper returns and dumps.
Result(data) == [total_stores |-> Len(data), stores |-> data]

InitRocket ==
    /\ NoMerge
    /\ NoStockist
    /\ NoGeo
    /\ NoBatch
    /\ NoRocket
    /\ response = NoResponse
    /\ pc = "extract_storerocket_id"
    /\ arg = NoArg
    /\ res = NoArg

\* Lines 158-169: the page cannot be fetched or has no
\* data-storerocket-id attribute; the scraper returns without writing.
RocketNoAccount ==
    /\ pc = "extract_storerocket_id"
    /\ pc' = "returned"
    /\ res' = <<Result(<<>>)>>
    /\ UNCHANGED <<mergeVars, stockistVars, geoVars, batchVars, rocketVars, response, arg>>

\* Lines 158-159 with an id in the page.
RocketAccountFound ==
    /\ pc = "extract_storerocket_id"
    /\ account_id' = "vZ4vPay8Qd"
    /\ pc' = "fetch_all_locations"
    /\ UNCHANGED <<mergeVars, stockistVars, geoVars, batchVars, response, arg, res,
                   stores_data, out_file, api_calls>>

\* Line 172.
RocketFetch ==
    /\ pc = "fetch_all_locations"
    /\ \E r \in RocketResponses :
          /\ response' = r
          /\ stores_data' = fetch_all_locations(r)
    /\ api_calls' = api_calls + 1
    /\ pc' = "fetched"
    /\ UNCHANGED <<mergeVars, stockistVars, geoVars, batchVars, arg, res, account_id,
                   out_file>>

\* Lines 174-181: nothing fetched; the scraper returns without writing.
RocketNoStores ==
    /\ pc = "fetched"
    /\ stores_data = <<>>
    /\ pc' = "returned"
    /\ res' = <<Result(<<>>)>>
    /\ UNCHANGED <<mergeVars, stockistVars, geoVars, batchVars, rocketVars, response, arg>>

\* Lines 183-187.
RocketFilter ==
    /\ pc = "fetched"
    /\ stores_data # <<>>
    /\ stores_data' = FilterChains("storerocket", stores_data)
    /\ pc' = "write"
    /\ UNCHANGED <<mergeVars, stockistVars, geoVars, batchVars, response, arg, res,
                   account_id, out_file, api_calls>>

\* Lines 198-218.
RocketWrite ==
    /\ pc = "write"
    /\ out_file' = <<Result(stores_data)>>
    /\ res' = <<Result(stores_data)>>
    /\ pc' = "returned"
    /\ UNCHANGED <<mergeVars, stockistVars, geoVars, batchVars, response, arg,
                   account_id, stores_data, api_calls>>

NextRocket ==
    \/ RocketNoAccount
    \/ RocketAccountFound
    \/ RocketFetch
    \/ RocketNoStores
    \/ RocketFilter
    \/ RocketWrite

SpecRocket == InitRocket /\ [][NextRocket]_vars

\* C14: a scrape run that recovers zero records still ends normally and
\* has written an output file with total_stores = 0 and an empty stores
\* list.
ZeroRecordRunWritesFile ==
    (pc = "returned" /\ res[1].stores = <<>>)
    => /\ out_file # <<>>
       /\ out_file[1].total_stores = 0
       /\ out_file[1].stores = <<>>

\* C19: the full-dump adapter issues exactly one request and returns the
\* empty list when the response reports no success, holds no locations,
\* failed in transport or is not JSON; otherwise it returns exactly the
\* locations of the response.
OneRequestAndEmptyOnFailure ==
    pc = "fetched"
    => /\ api_calls = 1
       /\ ( \/ response.kind # "json"
            \/ ~response.success
            \/ response.locations = <<>> ) => stores_data = <<>>
       /\ (response.kind = "json" /\ response.success)
          => stores_data = response.locations

\* The response reported failure and carried locations all the same; the
\* adapter has returned.
OneRequestAndEmptyOnFailure_Witness ==
    /\ pc = "fetched"
    /\ response.kind = "json"
    /\ ~response.success
    /\ Len(response.locations) = 2
    /\ stores_data = <<>>

----------------------------------------------------------------------------
(* fetch_storepoint_stores (test.py): two candidate endpoints, JSON or     *)
(* JSONP.                                                                  *)

\* Lines 51-54.
possible_urls ==
    << "https://storepoint.co/api/get_locations",
       "https://api.storepoint.co/v1/locations" >>

StorepointLocations == { Location(i, Str(<<"C", "o", "r", "n", "e", "r", " ", "M", "a", "r", "k", "e", "t">>)) : i \in 1..MaxSid }

\* What a candidate endpoint can answer: the request raises; a status other
\* than 200; a JSON object (its "locations", [] when the key is missing);
\* JSON wrapped in a callback whose object has "locations"; such an object
\* without "locations"; text without any {...}; {...} that does not parse.
EndpointResponses ==
    { [kind |-> k, success |-> FALSE, locations |-> <<>>] :
         k \in {"transport", "non200", "other_object", "no_object",
                "bad_object"} }
    \cup [kind : {"json", "jsonp"}, success : {TRUE},
          locations : SeqsUpTo(StorepointLocations, MaxLocs)]

\* arg holds the answer each candidate endpoint would give.
InitStorepoint ==
    /\ NoMerge
    /\ NoStockist
    /\ NoGeo
    /\ NoRocket
    /\ brands = <<>>
    /\ brand = 0
    /\ brand_stores = <<>>
    /\ all_data = <<>>
    /\ driver = "none"
    /\ stores_json = <<>>
    /\ fallback = {}
    /\ response = NoResponse
    /\ pc = "fetch_storepoint_stores"
    /\ arg \in [DOMAIN possible_urls -> EndpointResponses]
    /\ res = NoArg
    /\ endpoint = 1

\* Lines 58-64: status 200 and the body is a JSON object; its locations are
\* returned at once.
EndpointJson ==
    /\ pc = "fetch_storepoint_stores"
    /\ endpoint <= Len(possible_urls)
    /\ arg[endpoint].kind = "json"
    /\ response' = arg[endpoint]
    /\ res' = <<arg[endpoint].locations>>
    /\ pc' = "returned"
    /\ UNCHANGED <<mergeVars, stockistVars, geoVars, rocketVars, arg, brands, brand,
                   brand_stores, all_data, driver, stores_json, endpoint,
                   fallback>>

\* Lines 65-73: resp.json() fails, the {...} inside the text parses to a
\* dict with "locations"; they are returned at once.
EndpointJsonp ==
    /\ pc = "fetch_storepoint_stores"
    /\ endpoint <= Len(possible_urls)
    /\ arg[endpoint].kind = "jsonp"
    /\ response' = arg[endpoint]
    /\ res' = <<arg[endpoint].locations>>
    /\ pc' = "returned"
    /\ UNCHANGED <<mergeVars, stockistVars, geoVars, rocketVars, arg, brands, brand,
                   brand_stores, all_data, driver, stores_json, endpoint,
                   fallback>>

\* Line 75: a status other than 200, no {...} in the text, or an object
\* without "locations"; the next candidate is tried.
EndpointNoData ==
    /\ pc = "fetch_storepoint_stores"
    /\ endpoint <= Len(possible_urls)
    /\ arg[endpoint].kind \in {"non200", "no_object", "other_object"}
    /\ response' = arg[endpoint]
    /\ endpoint' = endpoint + 1
    /\ UNCHANGED <<mergeVars, stockistVars, geoVars, rocketVars, pc, arg, res, brands,
                   brand, brand_stores, all_data, driver, stores_json,
                   fallback>>

\* Lines 76-77: requests.get or json.loads raises; the next candidate is
\* tried.
EndpointError ==
    /\ pc = "fetch_storepoint_stores"
    /\ endpoint <= Len(possible_urls)
    /\ arg[endpoint].kind \in {"transport", "bad_object"}
    /\ response' = arg[endpoint]
    /\ endpoint' = endpoint + 1
    /\ UNCHANGED <<mergeVars, stockistVars, geoVars, rocketVars, pc, arg, res, brands,
                   brand, brand_stores, all_data, driver, stores_json,
                   fallback>>

\* Lines 78-79.
FallBackToEmpty ==
    /\ pc = "fetch_storepoint_stores"
    /\ endpoint > Len(possible_urls)
    /\ res' = <<<<>>>>
    /\ pc' = "returned"
    /\ UNCHANGED <<mergeVars, stockistVars, geoVars, rocketVars, arg, brands, brand,
                   brand_stores, all_data, driver, stores_json, endpoint,
                   fallback, response>>

NextStorepoint ==
    \/ EndpointJson
    \/ EndpointJsonp
    \/ EndpointNoData
    \/ EndpointError
    \/ FallBackToEmpty

SpecStorepoint == InitStorepoint /\ [][NextStorepoint]_vars

\* The endpoints, in order, whose answer holds a non-empty location list.
YieldingEndpoints ==
    { n \in DOMAIN possible_urls : arg[n].locations # <<>> }

\* C17: the adapter returns the locations of the first candidate endpoint
\* that yields a non-empty location list; an endpoint that fails, is not
\* 200, does not parse or parses to an empty list passes the turn to the
\* next; when no endpoint yields a non-empty list the result is the empty
\* list. (The function has no raising exit.)
FirstNonEmptyEndpointWins ==
    pc = "returned"
    => IF YieldingEndpoints = {} THEN res[1] = <<>>
       ELSE res[1] = arg[MinOf(YieldingEndpoints)].locations

----------------------------------------------------------------------------
(* main (test.py): one browser session, then every configured brand in     *)
(* turn, then stores.json.                                                 *)

\* Lines 9-14: the brand table; entries are switched on and off by
\* commenting them.
BRANDS == << "rootedfare", "alicemushrooms", "rishitea", "theonlybean" >>

\* The brands of a configuration that enables the entries in S, in the
\* order of the table.
Enabled(S) ==
    [n \in 1..Cardinality(S) |->
        BRANDS[CHOOSE i \in S : Cardinality({ j \in S : j <= i }) = n]]

BrandConfigs == { Enabled(S) : S \in (SUBSET DOMAIN BRANDS) \ {{}} }

\* The store lists an adapter or the page scrape can produce.
BatchStoreLists ==
    SeqsUpTo({ Location(0, Str(<<"C", "o", "r", "n", "e", "r", " ", "M", "a",
                                 "r", "k", "e", "t">>)),
               Location(0, Str(<<"t", "a", "r", "G", "E", "T">>)) }, MaxLocs)

InitBatch ==
    /\ NoMerge
    /\ NoStockist
    /\ NoGeo
    /\ NoRocket
    /\ response = NoResponse
    /\ pc = "setup_driver"
    /\ arg = NoArg
    /\ res = NoArg
    /\ brands \in BrandConfigs
    /\ brand = 0
    /\ brand_stores = <<>>
    /\ all_data = <<>>
    /\ driver = "none"
    /\ stores_json = <<>>
    /\ endpoint = 0
    /\ fallback = {}

\* Lines 169-174.
SetupDriver ==
    /\ pc = "setup_driver"
    /\ driver' = "open"
    /\ brand' = 1
    /\ pc' = "detect_storepoint_id"
    /\ UNCHANGED <<mergeVars, stockistVars, geoVars, rocketVars, response, arg, res,
                   brands, brand_stores, all_data, stores_json, endpoint,
                   fallback>>

\* Line 169: webdriver.Chrome raises; no session exists.
SetupDriverRaises ==
    /\ pc = "setup_driver"
    /\ pc' = "crashed"
    /\ UNCHANGED <<mergeVars, stockistVars, geoVars, rocketVars, response, arg, res,
                   brands, brand, brand_stores, all_data, driver,
                   stores_json, endpoint, fallback>>

\* Lines 177-179.
StorepointIdFound ==
    /\ pc = "detect_storepoint_id"
    /\ pc' = "fetch_storepoint_stores"
    /\ UNCHANGED <<mergeVars, stockistVars, geoVars, rocketVars, response, arg, res,
                   brands, brand, brand_stores, all_data, driver,
                   stores_json, endpoint, fallback>>

\* Lines 177-178, 181.
StorepointIdNone ==
    /\ pc = "detect_storepoint_id"
    /\ pc' = "detect_storemapper_id"
    /\ UNCHANGED <<mergeVars, stockistVars, geoVars, rocketVars, response, arg, res,
                   brands, brand, brand_stores, all_data, driver,
                   stores_json, endpoint, fallback>>

\* Line 177: requests.get of line 31 raises; nothing in main catches it.
DetectStorepointRaises ==
    /\ pc = "detect_storepoint_id"
    /\ pc' = "crashed"
    /\ UNCHANGED <<mergeVars, stockistVars, geoVars, rocketVars, response, arg, res,
                   brands, brand, brand_stores, all_data, driver,
                   stores_json, endpoint, fallback>>

\* Line 180: the adapter returns a list, empty or not, and never raises.
FetchStorepointStores ==
    /\ pc = "fetch_storepoint_stores"
    /\ brand_stores' \in BatchStoreLists
    /\ pc' = "store"
    /\ UNCHANGED <<mergeVars, stockistVars, geoVars, rocketVars, response, arg, res,
                   brands, brand, all_data, driver, stores_json, endpoint,
                   fallback>>

\* Lines 183-185.
StoremapperIdFound ==
    /\ pc = "detect_storemapper_id"
    /\ pc' = "fetch_storemapper_stores"
    /\ UNCHANGED <<mergeVars, stockistVars, geoVars, rocketVars, response, arg, res,
                   brands, brand, brand_stores, all_data, driver,
                   stores_json, endpoint, fallback>>

\* Lines 183-184, 187-188.
StoremapperIdNone ==
    /\ pc = "detect_storemapper_id"
    /\ pc' = "scrape_non_api"
    /\ UNCHANGED <<mergeVars, stockistVars, geoVars, rocketVars, response, arg, res,
                   brands, brand, brand_stores, all_data, driver,
                   stores_json, endpoint, fallback>>

\* Line 183: requests.get of line 39 raises.
DetectStoremapperRaises ==
    /\ pc = "detect_storemapper_id"
    /\ pc' = "crashed"
    /\ UNCHANGED <<mergeVars, stockistVars, geoVars, rocketVars, response, arg, res,
                   brands, brand, brand_stores, all_data, driver,
                   stores_json, endpoint, fallback>>

\* Line 186.
FetchStoremapperStores ==
    /\ pc = "fetch_storemapper_stores"
    /\ brand_stores' \in BatchStoreLists
    /\ pc' = "store"
    /\ UNCHANGED <<mergeVars, stockistVars, geoVars, rocketVars, response, arg, res,
                   brands, brand, all_data, driver, stores_json, endpoint,
                   fallback>>

\* Line 186: requests.get of line 85 or resp.json() of line 86 raises.
FetchStoremapperRaises ==
    /\ pc = "fetch_storemapper_stores"
    /\ pc' = "crashed"
    /\ UNCHANGED <<mergeVars, stockistVars, geoVars, rocketVars, response, arg, res,
                   brands, brand, brand_stores, all_data, driver,
                   stores_json, endpoint, fallback>>

\* Line 189: the page scrape; it has no branch for alicemushrooms.
ScrapeNonApi ==
    /\ pc = "scrape_non_api"
    /\ fallback' = fallback \cup {brands[brand]}
    /\ brand_stores' \in IF brands[brand] = "alicemushrooms" THEN {<<>>}
                         ELSE BatchStoreLists
    /\ pc' = "store"
    /\ UNCHANGED <<mergeVars, stockistVars, geoVars, rocketVars, response, arg, res,
                   brands, brand, all_data, driver, stores_json, endpoint>>

\* Line 189: driver.get of line 104 raises.
ScrapeNonApiRaises ==
    /\ pc = "scrape_non_api"
    /\ fallback' = fallback \cup {brands[brand]}
    /\ pc' = "crashed"
    /\ UNCHANGED <<mergeVars, stockistVars, geoVars, rocketVars, response, arg, res,
                   brands, brand, brand_stores, all_data, driver,
                   stores_json, endpoint>>

\* Lines 191-192 and the loop head, lines 172-174.
StoreBrand ==
    /\ pc = "store"
    /\ all_data' = Append(all_data,
                          [brand |-> brands[brand], stores |-> brand_stores])
    /\ brand_stores' = <<>>
    /\ IF brand < Len(brands)
       THEN brand' = brand + 1 /\ pc' = "detect_storepoint_id"
       ELSE brand' = brand /\ pc' = "quit"
    /\ UNCHANGED <<mergeVars, stockistVars, geoVars, rocketVars, response, arg, res,
                   brands, driver, stores_json, endpoint, fallback>>

\* Line 194.
DriverQuit ==
    /\ pc = "quit"
    /\ driver' = "quit"
    /\ pc' = "write"
    /\ UNCHANGED <<mergeVars, stockistVars, geoVars, rocketVars, response, arg, res,
                   brands, brand, brand_stores, all_data, stores_json,
                   endpoint, fallback>>

\* Lines 196-199.
WriteStoresJson ==
    /\ pc = "write"
    /\ stores_json' = <<all_data>>
    /\ pc' = "done"
    /\ UNCHANGED <<mergeVars, stockistVars, geoVars, rocketVars, response, arg, res,
                   brands, brand, brand_stores, all_data, driver, endpoint,
                   fallback>>

NextBatch ==
    \/ SetupDriver
    \/ SetupDriverRaises
    \/ StorepointIdFound
    \/ StorepointIdNone
    \/ DetectStorepointRaises
    \/ FetchStorepointStores
    \/ StoremapperIdFound
    \/ StoremapperIdNone
    \/ DetectStoremapperRaises
    \/ FetchStoremapperStores
    \/ FetchStoremapperRaises
    \/ ScrapeNonApi
    \/ ScrapeNonApiRaises
    \/ StoreBrand
    \/ DriverQuit
    \/ WriteStoresJson

SpecBatch == InitBatch /\ [][NextBatch]_vars

\* The run is over: main returned, or an exception left it.
RunEnded == pc \in {"done", "crashed"}

\* C15: a browser session that was launched has been released when the run
\* ends, on the normal path and when a later step raises.
SessionReleasedOnEveryExit ==
    (RunEnded /\ driver # "none") => driver = "quit"

\* C16: no run finishes with zero records for a brand without the browser
\* fallback having been attempted for it, whether detection failed or a
\* detected platform's adapter yielded nothing.
FallbackBeforeEmptyResult ==
    pc = "done"
    => \A n \in DOMAIN all_data :
          all_data[n].stores = <<>> => all_data[n].brand \in fallback

\* C18: when the acquisition of one brand fails, the batch still ends with
\* stores.json written and holding an entry for every configured brand.
BatchOutputHasEveryBrand ==
    (RunEnded /\ driver # "none")
    => /\ stores_json # <<>>
       /\ { stores_json[1][n].brand : n \in DOMAIN stores_json[1] }
          = Range(brands)

----------------------------------------------------------------------------
(* Further properties of fetch_all_locations_from_api.                     *)

\* C21: a delay occurs between every two consecutive region queries,
\* whether the earlier one succeeded or failed: whenever a region other
\* than the first is about to be queried, a delay has followed the query
\* before it.
DelayBetweenRegionQueries ==
    (pc = "regions" /\ 1 < region /\ region <= Len(regions)) => delayed

\* C22: every region of the list is queried once, in list order; a region
\* whose request fails or whose response does not parse is not retried,
\* adds no records, does not end the loop and leaves the collected records
\* as they were; the adapter returns only after the last region.
EachRegionOnceInOrder ==
    [][ /\ (pc = "regions" /\ region <= Len(regions))
           => /\ pc' = "regions"
              /\ region' = region + 1
              /\ ~delayed' => (geo_stores' = geo_stores /\ seen' = seen)
        /\ pc' = "returned" => region > Len(regions) ]_vars

\* The last region failed after two records had been collected, and the
\* adapter has returned them.
EachRegionOnceInOrder_Witness ==
    /\ pc = "returned"
    /\ ~delayed
    /\ region = Len(regions) + 1
    /\ Len(res[1]) = 2

----------------------------------------------------------------------------
(* Further properties of merge_brands and of the two chain filters.        *)

\* C26: a canonical store is created on first sight of its key and never
\* deleted or replaced: in every step the merged map keeps its stores, in
\* place, with their keys and their first-seen payload; only brands and
\* brand_count of a matched store change.
FirstSeenPayloadKept ==
    [][ /\ Len(all_stores') >= Len(all_stores)
        /\ \A i \in DOMAIN all_stores :
              /\ all_stores'[i].key = all_stores[i].key
              /\ all_stores'[i].store = all_stores[i].store ]_vars

\* A later record with the same key and another payload has matched a
\* store.
FirstSeenPayloadKept_Witness ==
    /\ pc = "done"
    /\ \E i \in DOMAIN all_stores :
          /\ all_stores[i].brand_count = 2
          /\ \E f \in DOMAIN input_files : \E r \in Reached(f) :
                /\ get_store_id(r) = all_stores[i].key
                /\ r # all_stores[i].store

RECURSIVE SumNewStores(_, _)
SumNewStores(stats, S) ==
    IF S = {} THEN 0
    ELSE LET bn == CHOOSE x \in S : TRUE
         IN (IF stats[bn].present THEN stats[bn].new_stores ELSE 0)
            + SumNewStores(stats, S \ {bn})

\* C27: in the written directory every brand's total_stores is its
\* new_stores plus its existing_stores, and the new_stores of all brands
\* add up to the number of merged stores.
StatsAddUp ==
    pc = "done"
    => /\ \A bn \in BrandNames :
             output[1].brand_stats[bn].present
             => output[1].brand_stats[bn].total_stores
                = output[1].brand_stats[bn].new_stores
                  + output[1].brand_stats[bn].existing_stores
       /\ SumNewStores(output[1].brand_stats, BrandNames)
          = output[1].total_stores

\* C28: for every store name the two scrapers' should_exclude_store take
\* the same decision.
SameDecisionInBothScrapers ==
    res # NoArg => res[1] = res[2]

\* The input file loads and none of its records makes get_store_id raise.
FileSucceeds(filename) ==
    /\ files[filename].readable
    /\ \A r \in Range(SelectSeq(files[filename].stores, IsActualStore)) :
          get_store_id(r) # KeyError

\* C29: a file that fails (unreadable, or an exception on one of its
\* records) contributes nothing: the merged stores are those of the merge
\* of the other files alone.
FailedFileContributesNothing ==
    pc = "done"
    => output[1].stores
       = MergeFiles(SelectSeq(input_files, FileSucceeds), files, <<>>)

----------------------------------------------------------------------------
(* scrape_stockist_stores (scrape_stockist_stores.py): the browser run     *)
(* around the detector, the geographic adapter and the traffic harvest.    *)

MaxLogs == 2

\* The steps of the browser run, in the order of the code.
FallbackSteps ==
    << "Launch", "NavigateAndSettle", "DismissOverlays", "AwaitWidgetSignal",
       "HarvestNetworkTraffic", "HarvestDomScripts", "Teardown" >>

\* The pages the browser can show: one without any Stockist markup and one
\* that loads the widget script of account u1.
StockistPages ==
    { <<Fragment("noise", <<>>)>>, <<Fragment("api", <<"1">>)>> }

\* What fetch_all_locations_from_api can return: lists without a repeated
\* or missing id.
AdapterResults ==
    LET corner == <<"C", "o", "r", "n", "e", "r", " ", "M", "a", "r", "k", "e", "t">>
        chain == <<"t", "a", "r", "G", "E", "T">>
    IN { l \in SeqsUpTo({ Location(1, Str(corner)), Location(2, Str(chain)) },
                        MaxLocs) :
            \A i, j \in DOMAIN l : i # j => l[i].sid # l[j].sid }

\* The URLs of the responses the performance log can hold: a script of the
\* shop, a Stockist style sheet, the widget script of account u1 and a
\* location search of account u2.
LogUrls ==
    << <<"h", "t", "t", "p", "s", ":", "/", "/", "c", "d", "n", ".", "s",
         "h", "o", "p", ".", "c", "o", "m", "/", "a", "p", "p", ".", "j",
         "s">>,
       <<"h", "t", "t", "p", "s", ":", "/", "/", "s", "t", "o", "c", "k",
         "i", "s", "t", ".", "c", "o", "/", "a", "s", "s", "e", "t", "s",
         "/", "w", "i", "d", "g", "e", "t", ".", "c", "s", "s">>,
       <<"h", "t", "t", "p", "s", ":", "/", "/", "s", "t", "o", "c", "k",
         "i", "s", "t", ".", "c", "o", "/", "a", "p", "i", "/", "v", "1",
         "/", "u", "1", "/", "w", "i", "d", "g", "e", "t", ".", "j", "s">>,
       <<"h", "t", "t", "p", "s", ":", "/", "/", "s", "t", "o", "c", "k",
         "i", "s", "t", ".", "c", "o", "/", "a", "p", "i", "/", "v", "1",
         "/", "u", "2", "/", "l", "o", "c", "a", "t", "i", "o", "n", "s",
         "/", "s", "e", "a", "r", "c", "h", "?", "t", "a", "g", "=", "u",
         "2">> >>

\* A Network.responseReceived entry: its URL and the list its body yields
\* (none when the body is missing or is not JSON).
LogEntries ==
    LET corner == <<"C", "o", "r", "n", "e", "r", " ", "M", "a", "r", "k", "e", "t">>
        chain == <<"t", "a", "r", "G", "E", "T">>
    IN { [url |-> LogUrls[k], body |-> <<>>] : k \in DOMAIN LogUrls }
       \cup { [url |-> LogUrls[4], body |-> l] :
                 l \in { <<Location(1, Str(corner))>>,
                         <<Location(0, Str(chain))>> } }

\* Line 369.
IsStockistUrl(url) ==
    Contains(<<"s", "t", "o", "c", "k", "i", "s", "t", ".", "c", "o">>, url)

RECURSIVE RecoveredIds_NoBreak(_)
RecoveredIds_NoBreak(entries) ==
    IF entries = <<>> THEN <<>>
    ELSE LET response_url == Head(entries).url
             extracted_id == IF IsStockistUrl(response_url)
                             THEN extract_stockist_user_id(response_url)
                             ELSE Null
         IN IF extracted_id # Null
            THEN <<extracted_id>> \o RecoveredIds_NoBreak(Tail(entries))
            ELSE RecoveredIds_NoBreak(Tail(entries))

\* Lines 364-380: the identifiers for which the loop over the log invokes
\* the adapter; it breaks at the first entry that yields one.
RECURSIVE RecoveredIds(_)
RecoveredIds(entries) ==
    IF entries = <<>> THEN <<>>
    ELSE LET response_url == Head(entries).url
             extracted_id == IF IsStockistUrl(response_url)
                             THEN extract_stockist_user_id(response_url)
                             ELSE Null
         IN IF extracted_id # Null THEN <<extracted_id>>
            ELSE RecoveredIds(Tail(entries))

\* Lines 383-439: the records taken from the bodies of the API calls in
\* the log (the test of line 392), in log order.
RECURSIVE HarvestBodies(_)
HarvestBodies(entries) ==
    IF entries = <<>> THEN <<>>
    ELSE LET response_url == Head(entries).url
             is_api_call ==
                 /\ Contains(<<"s", "t", "o", "c", "k", "i", "s", "t", ".", "c", "o">>,
                             response_url)
                 /\ \/ Contains(<<"/", "a", "p", "i", "/">>, response_url)
                    \/ Contains(<<"/", "l", "o", "c", "a", "t", "i", "o", "n",
                                  "s">>, response_url)
         IN (IF is_api_call THEN Head(entries).body ELSE <<>>)
            \o HarvestBodies(Tail(entries))

\* Lines 467-492: the first record of every hash (lines 475-484), in order.
Deduplicate(data) ==
    LET store_hash(store) ==
            IF store.sid # 0 THEN [sid |-> store.sid, name |-> Absent]
            ELSE [sid |-> 0, name |-> store.name]
        Keep(i) ==
            \A j \in 1..(i - 1) : store_hash(data[j]) # store_hash(data[i])
        f[i \in 0..Len(data)] ==
            IF i = 0 THEN <<>>
            ELSE IF Keep(i) THEN Append(f[i - 1], data[i]) ELSE f[i - 1]
    IN f[Len(data)]

InitStockist ==
    /\ NoMerge
    /\ NoGeo
    /\ NoRocket
    /\ NoBatch
    /\ NoStockist
    /\ response = NoResponse
    /\ pc = "Launch"
    /\ arg = NoArg
    /\ res = NoArg

\* Lines 229-236.
StockistLaunch ==
    /\ pc = "Launch"
    /\ driver' = "open"
    /\ steps' = Append(steps, "Launch")
    /\ pc' = "NavigateAndSettle"
    /\ UNCHANGED <<mergeVars, geoVars, arg, response, account_id, brands,
                   brand, brand_stores, all_data, stores_json, endpoint,
                   fallback, user_id, id_source, logs, widget, harvested,
                   raised, stores_data, out_file, api_calls, res>>

\* Lines 232-233 raise: there is no driver to quit in the finally block.
StockistLaunchRaises ==
    /\ pc = "Launch"
    /\ raised' = TRUE
    /\ pc' = "raised"
    /\ UNCHANGED <<mergeVars, geoVars, arg, response, account_id, brands,
                   brand, brand_stores, all_data, stores_json, endpoint,
                   fallback, user_id, id_source, logs, widget, harvested,
                   steps, stores_data, out_file, api_calls, driver, res>>

\* Lines 238-252.
NavigateAndSettle ==
    /\ pc = "NavigateAndSettle"
    /\ steps' = Append(steps, "NavigateAndSettle")
    /\ pc' = "DismissOverlays"
    /\ UNCHANGED <<mergeVars, geoVars, arg, response, account_id, brands,
                   brand, brand_stores, all_data, stores_json, endpoint,
                   fallback, user_id, id_source, logs, widget, harvested,
                   raised, stores_data, out_file, api_calls, driver, res>>

\* Lines 254-319: every failure in here is caught.
DismissOverlays ==
    /\ pc = "DismissOverlays"
    /\ steps' = Append(steps, "DismissOverlays")
    /\ pc' = "DetectPlatform"
    /\ UNCHANGED <<mergeVars, geoVars, arg, response, account_id, brands,
                   brand, brand_stores, all_data, stores_json, endpoint,
                   fallback, user_id, id_source, logs, widget, harvested,
                   raised, stores_data, out_file, api_calls, driver, res>>

\* Lines 322-329: the identifier is in the page; the adapter is invoked.
DetectedInPage ==
    /\ pc = "DetectPlatform"
    /\ \E page \in StockistPages :
          /\ extract_stockist_user_id(PageSource(page)) # Null
          /\ user_id' = extract_stockist_user_id(PageSource(page))
    /\ id_source' = "page"
    /\ api_calls' = api_calls + 1
    /\ \E api_stores \in AdapterResults : stores_data' = stores_data \o api_stores
    /\ pc' = "AwaitWidgetSignal"
    /\ UNCHANGED <<mergeVars, geoVars, arg, response, account_id, brands,
                   brand, brand_stores, all_data, stores_json, endpoint,
                   fallback, logs, widget, harvested, raised, steps,
                   out_file, driver, res>>

\* Lines 322-325, 330-332.
NotDetectedInPage ==
    /\ pc = "DetectPlatform"
    /\ \E page \in StockistPages :
          extract_stockist_user_id(PageSource(page)) = Null
    /\ pc' = "AwaitWidgetSignal"
    /\ UNCHANGED <<mergeVars, geoVars, arg, response, account_id, brands,
                   brand, brand_stores, all_data, stores_json, endpoint,
                   fallback, user_id, id_source, logs, widget, harvested,
                   raised, steps, stores_data, out_file, api_calls, driver,
                   res>>

\* Lines 335-345.
WidgetDetected ==
    /\ pc = "AwaitWidgetSignal"
    /\ widget' = "detected"
    /\ steps' = Append(steps, "AwaitWidgetSignal")
    /\ pc' = "GetLogs"
    /\ UNCHANGED <<mergeVars, geoVars, arg, response, account_id, brands,
                   brand, brand_stores, all_data, stores_json, endpoint,
                   fallback, user_id, id_source, logs, harvested, raised,
                   stores_data, out_file, api_calls, driver, res>>

WidgetTimeout_Fatal ==
    /\ pc = "AwaitWidgetSignal"
    /\ widget' = "timeout"
    /\ steps' = Append(steps, "AwaitWidgetSignal")
    /\ raised' = TRUE
    /\ pc' = "Teardown"
    /\ UNCHANGED <<mergeVars, geoVars, arg, response, account_id, brands,
                   brand, brand_stores, all_data, stores_json, endpoint,
                   fallback, user_id, id_source, logs, harvested,
                   stores_data, out_file, api_calls, driver, res>>

\* Lines 335-347: TimeoutException is caught; the run goes on.
WidgetTimeout ==
    /\ pc = "AwaitWidgetSignal"
    /\ widget' = "timeout"
    /\ steps' = Append(steps, "AwaitWidgetSignal")
    /\ pc' = "GetLogs"
    /\ UNCHANGED <<mergeVars, geoVars, arg, response, account_id, brands,
                   brand, brand_stores, all_data, stores_json, endpoint,
                   fallback, user_id, id_source, logs, harvested, raised,
                   stores_data, out_file, api_calls, driver, res>>

\* driver.get (line 239) or driver.get_log (line 358) raises: lines 508-510
\* re-raise after the finally block.
BrowserRaises ==
    /\ pc \in {"NavigateAndSettle", "GetLogs"}
    /\ raised' = TRUE
    /\ pc' = "Teardown"
    /\ UNCHANGED <<mergeVars, geoVars, arg, response, account_id, brands,
                   brand, brand_stores, all_data, stores_json, endpoint,
                   fallback, user_id, id_source, logs, widget, harvested,
                   steps, stores_data, out_file, api_calls, driver, res>>

\* Lines 349-360.
GetLogs ==
    /\ pc = "GetLogs"
    /\ logs' \in SeqsUpTo(LogEntries, MaxLogs)
    /\ pc' = "RecoverId"
    /\ UNCHANGED <<mergeVars, geoVars, arg, response, account_id, brands,
                   brand, brand_stores, all_data, stores_json, endpoint,
                   fallback, user_id, id_source, widget, harvested, raised,
                   steps, stores_data, out_file, api_calls, driver, res>>

\* Lines 363-380: no identifier yet; the log is searched for one and the
\* adapter invoked for it.
RecoverFromLogs ==
    /\ pc = "RecoverId"
    /\ user_id = Null
    /\ LET ids == RecoveredIds(logs)
       IN /\ api_calls' = api_calls + Len(ids)
          /\ IF ids = <<>>
             THEN UNCHANGED <<user_id, id_source, stores_data>>
             ELSE /\ user_id' = ids[Len(ids)]
                  /\ id_source' = "logs"
                  /\ \E api_stores \in AdapterResults :
                        stores_data' = stores_data \o api_stores
    /\ pc' = "HarvestNetworkTraffic"
    /\ UNCHANGED <<mergeVars, geoVars, arg, response, account_id, brands,
                   brand, brand_stores, all_data, stores_json, endpoint,
                   fallback, logs, widget, harvested, raised, steps,
                   out_file, driver, res>>

\* Line 363: the identifier is known from the page.
SkipRecovery ==
    /\ pc = "RecoverId"
    /\ user_id # Null
    /\ pc' = "HarvestNetworkTraffic"
    /\ UNCHANGED <<mergeVars, geoVars, arg, response, account_id, brands,
                   brand, brand_stores, all_data, stores_json, endpoint,
                   fallback, user_id, id_source, logs, widget, harvested,
                   raised, steps, stores_data, out_file, api_calls, driver,
                   res>>

\* Lines 383-439: the loop over every log entry.
HarvestNetworkTraffic ==
    /\ pc = "HarvestNetworkTraffic"
    /\ harvested' = HarvestBodies(logs)
    /\ stores_data' = stores_data \o HarvestBodies(logs)
    /\ steps' = Append(steps, "HarvestNetworkTraffic")
    /\ pc' = "AfterHarvest"
    /\ UNCHANGED <<mergeVars, geoVars, arg, response, account_id, brands,
                   brand, brand_stores, all_data, stores_json, endpoint,
                   fallback, user_id, id_source, logs, widget, raised,
                   out_file, api_calls, driver, res>>

\* Lines 441-464.
HarvestDomScripts ==
    /\ pc = "AfterHarvest"
    /\ stores_data = <<>>
    /\ stores_data'
          \in { <<>>,
                <<Location(0, Str(<<"C", "o", "r", "n", "e", "r", " ", "M",
                                    "a", "r", "k", "e", "t">>))>> }
    /\ steps' = Append(steps, "HarvestDomScripts")
    /\ pc' = "Deduplicate"
    /\ UNCHANGED <<mergeVars, geoVars, arg, response, account_id, brands,
                   brand, brand_stores, all_data, stores_json, endpoint,
                   fallback, user_id, id_source, logs, widget, harvested,
                   raised, out_file, api_calls, driver, res>>

\* Line 441 with stores_data not empty.
SkipDomScripts ==
    /\ pc = "AfterHarvest"
    /\ stores_data # <<>>
    /\ pc' = "Deduplicate"
    /\ UNCHANGED <<mergeVars, geoVars, arg, response, account_id, brands,
                   brand, brand_stores, all_data, stores_json, endpoint,
                   fallback, user_id, id_source, logs, widget, harvested,
                   raised, steps, stores_data, out_file, api_calls, driver,
                   res>>

\* Lines 466-506.
DeduplicateAndFilter ==
    /\ pc = "Deduplicate"
    /\ stores_data' = FilterChains("stockist", Deduplicate(stores_data))
    /\ pc' = "Teardown"
    /\ UNCHANGED <<mergeVars, geoVars, arg, response, account_id, brands,
                   brand, brand_stores, all_data, stores_json, endpoint,
                   fallback, user_id, id_source, logs, widget, harvested,
                   raised, steps, out_file, api_calls, driver, res>>

\* Lines 512-515, then line 510 when an exception is on its way.
Teardown ==
    /\ pc = "Teardown"
    /\ driver' = "quit"
    /\ steps' = Append(steps, "Teardown")
    /\ pc' = IF raised THEN "raised" ELSE "Write"
    /\ UNCHANGED <<mergeVars, geoVars, arg, response, account_id, brands,
                   brand, brand_stores, all_data, stores_json, endpoint,
                   fallback, user_id, id_source, logs, widget, harvested,
                   raised, stores_data, out_file, api_calls, res>>

\* Lines 517-538.
StockistWrite ==
    /\ pc = "Write"
    /\ out_file' = <<Result(stores_data)>>
    /\ res' = <<Result(stores_data)>>
    /\ pc' = "returned"
    /\ UNCHANGED <<mergeVars, geoVars, arg, response, account_id, brands,
                   brand, brand_stores, all_data, stores_json, endpoint,
                   fallback, user_id, id_source, logs, widget, harvested,
                   raised, steps, stores_data, api_calls, driver>>

NextStockist ==
    \/ StockistLaunch
    \/ StockistLaunchRaises
    \/ NavigateAndSettle
    \/ DismissOverlays
    \/ DetectedInPage
    \/ NotDetectedInPage
    \/ WidgetDetected
    \/ WidgetTimeout
    \/ BrowserRaises
    \/ GetLogs
    \/ RecoverFromLogs
    \/ SkipRecovery
    \/ HarvestNetworkTraffic
    \/ HarvestDomScripts
    \/ SkipDomScripts
    \/ DeduplicateAndFilter
    \/ Teardown
    \/ StockistWrite

SpecStockist == InitStockist /\ [][NextStockist]_vars

\* C23: when the identifier is recovered from a logged URL, no record is
\* taken from a captured response body afterwards in that run.
RecoveryEndsHarvest == id_source = "logs" => harvested = <<>>

\* C24 as stated: the steps come in the order of FallbackSteps,
\* HarvestDomScripts runs exactly when the traffic harvest yielded no
\* record, and a timeout of the widget wait lets the run go on to the
\* traffic harvest.
DomScriptsIffTrafficEmpty ==
    [][ /\ steps' # steps
           => /\ Len(steps') = Len(steps) + 1
              /\ SubSeq(steps', 1, Len(steps)) = steps
              /\ \E k \in DOMAIN FallbackSteps :
                    /\ steps'[Len(steps')] = FallbackSteps[k]
                    /\ \A i \in DOMAIN steps :
                          \E j \in 1..(k - 1) : steps[i] = FallbackSteps[j]
        /\ pc = "AfterHarvest"
           => ("HarvestDomScripts" \in Range(steps') <=> harvested = <<>>)
        /\ (widget # "timeout" /\ widget' = "timeout")
           => ~raised' /\ pc' = "GetLogs"
        /\ (pc' = "returned" /\ widget' = "timeout")
           => "HarvestNetworkTraffic" \in Range(steps') ]_vars

\* C24, amended: the steps come in the order of FallbackSteps,
\* HarvestDomScripts runs exactly when no record at all has been collected
\* by the end of the traffic harvest, neither by the adapter nor from the
\* traffic, and a timeout of the widget wait lets the run go on to the
\* traffic harvest.
DomScriptsIffNothingCollected ==
    [][ /\ steps' # steps
           => /\ Len(steps') = Len(steps) + 1
              /\ SubSeq(steps', 1, Len(steps)) = steps
              /\ \E k \in DOMAIN FallbackSteps :
                    /\ steps'[Len(steps')] = FallbackSteps[k]
                    /\ \A i \in DOMAIN steps :
                          \E j \in 1..(k - 1) : steps[i] = FallbackSteps[j]
        /\ pc = "AfterHarvest"
           => ("HarvestDomScripts" \in Range(steps') <=> stores_data = <<>>)
        /\ (widget # "timeout" /\ widget' = "timeout")
           => ~raised' /\ pc' = "GetLogs"
        /\ (pc' = "returned" /\ widget' = "timeout")
           => "HarvestNetworkTraffic" \in Range(steps') ]_vars

DomScriptsIffNothingCollected_Witness ==
    /\ pc = "returned"
    /\ widget = "timeout"
    /\ api_calls = 1
    /\ harvested = <<>>
    /\ out_file[1].stores # <<>>
    /\ steps = << "Launch", "NavigateAndSettle", "DismissOverlays",
                  "AwaitWidgetSignal", "HarvestNetworkTraffic", "Teardown" >>

WrittenListsAreFiltered ==
    stores_json # <<>>
    => \A b \in DOMAIN stores_json[1] :
          \A i \in DOMAIN stores_json[1][b].stores :
             LET store_name == stores_json[1][b].stores[i].name
             IN /\ ~should_exclude_store("stockist", store_name)
                /\ ~should_exclude_store("storerocket", store_name)

====
